---- MODULE Spec2Model ----
(***************************************************************************)
(* A model of crawler.py: the metadata selection, the sequential fetch     *)
(* loop with its skip-if-exists check, the bounded retry loop around        *)
(* get_problem_detail, the adaptive delay and the output files.            *)
(*                                                                         *)
(* Time is counted in ticks, TICKS ticks to one second, so that the        *)
(* random jitter random.random() in [0, 1) is one of 0 .. TICKS-1 ticks.   *)
(***************************************************************************)
EXTENDS Integers, Sequences, FiniteSets, TLC

\* ---- program constants (crawler.py lines 22-26) ----
DEFAULT_RETRY_DELAY == 60
RATE_LIMIT_DELAY == 60
SLOW_RESPONSE_DELAY == 5
NORMAL_DELAY == 1
MAX_RETRIES == 3

\* ---- bounds of the model ----
MaxId == 2          \* question ids are 1 .. MaxId
TICKS == 2          \* ticks per second

Ids == 1 .. MaxId
None == 0 - 1       \* Python's None for the optional --start / --end
Jitter == 0 .. (TICKS - 1)
\* response.elapsed in the fetch loop: exactly 2 s, just above 2 s
Elapsed == {2 * TICKS, 2 * TICKS + 1}
ElapsedAll == 0 .. (4 * TICKS)
\* 204: a non-200 status that raise_for_status lets through
Statuses == {200, 204, 429, 500}
StatusesAll == {200, 204, 304, 404, 429, 500}

\* ---- JSON values ----
JNull == [t |-> "null"]
JStr(s) == [t |-> "str", s |-> s]
JObj(m) == [t |-> "obj", m |-> m]
EmptyDict == JObj([k \in {} |-> JNull])

Has(o, k) == k \in DOMAIN o.m
\* dict.get(k, default)
Get(o, k, default) == IF Has(o, k) THEN o.m[k] ELSE default

Question(p) == JObj([title |-> JStr(p)])
Payloads == {"p1", "p2"}
DetailNoData == JObj([errors |-> JStr("e")])
DetailDataNull == JObj([data |-> JNull])
DetailNoQuestion == JObj([data |-> JObj([other |-> JNull])])
DetailQuestionNull == JObj([data |-> JObj([question |-> JNull])])
DetailValid(p) == JObj([data |-> JObj([question |-> Question(p)])])
NotJson == [t |-> "text"]
Bodies == {NotJson, DetailNoData, DetailDataNull, DetailNoQuestion, DetailQuestionNull}
            \cup {DetailValid(p) : p \in Payloads}

\* json.dump(detail, f, ensure_ascii=False, indent=4): the text as tokens
RECURSIVE Dump(_)
RECURSIVE DumpMembers(_, _)
DumpMembers(m, keys) ==
    IF keys = {} THEN << >>
    ELSE LET k == CHOOSE x \in keys : TRUE
         IN  <<k, ":">> \o Dump(m[k])
               \o (IF keys = {k} THEN << >> ELSE <<",">> \o DumpMembers(m, keys \ {k}))
\* the closing brace of an object left out
DumpUnclosed(v) ==
    CASE v.t = "null" -> <<"null">>
      [] v.t = "str"  -> <<"'", v.s, "'">>
      [] v.t = "obj"  -> <<"{">> \o DumpMembers(v.m, DOMAIN v.m)

Dump(v) ==
    CASE v.t = "null" -> <<"null">>
      [] v.t = "str"  -> <<"'", v.s, "'">>
      [] v.t = "obj"  -> <<"{">> \o DumpMembers(v.m, DOMAIN v.m) \o <<"}">>

\* ---- the output directory: path -> absent, or the text of the file ----
Absent == [exists |-> FALSE, text |-> << >>]
File(text) == [exists |-> TRUE, text |-> text]
OldFile == File(Dump(DetailValid("p0")))
SlugOf(id) == <<"s", id>>
Stat(id) == [question_id |-> id, question__title_slug |-> SlugOf(id)]
\* output_dir / f"{question_id}.{title_slug}.json"
Outfile(question_id, title_slug) == <<question_id, title_slug>>
Paths == {Outfile(i, SlugOf(i)) : i \in Ids}

VARIABLES
    \* inputs of a run
    metadata,           \* metadata["stat_status_pairs"]: as delivered, then as
                        \* line 190 sorts it in place
    start, end,         \* --start / --end, None when absent
    metadata_file,      \* TRUE when -m is given
    update,             \* -u
    \* program state of main()
    pc,                 \* "start", "loop", "retry", "sleep", "done", "exit",
                        \* "crashed";
                        \* "delay", "slept" for adaptive_delay on its own
    stat_status_pairs,  \* after the sort and the range filter
    idx,                \* position of the for loop, 1-based
    stats,              \* total, success, skipped, failed
    retry_count,
    success,
    disk,               \* the files of output_dir
    exit_code,          \* None while the process runs
    \* observations
    run,                \* number of the current run
    netMeta,            \* the metadata request was issued in the current run
    netDetail,          \* a detail request was issued in the current run
    reqs,               \* detail requests for the current item
    only500,            \* every detail attempt for the current item got HTTP 500
    wrote,              \* an attempt for the current item reached the write step
    onlyWrite,          \* every detail attempt for the current item ended in a
                        \* failed write
    last,               \* the last attempt: kind, status, elapsed, wait
    processed,          \* ids the loop has reached, in order
    failedIds,          \* ids counted in failed in this run
    saved,              \* <<id, payload>> of the attempts counted in success
    prev,               \* what the previous run left behind
    diskAtStart,        \* disk when the current run started
    reordered,          \* the sort of line 190 changed the order of the list
    requested,          \* ids a detail request was issued for in this run
    waited              \* a time.sleep of at least one second has ended since
                        \* the last detail request

vars == <<metadata, start, end, metadata_file, update, pc, stat_status_pairs, idx,
          stats, retry_count, success, disk, exit_code, run, netMeta, netDetail, reqs,
          only500, wrote, onlyWrite, last, processed, failedIds, prev, diskAtStart,
          reordered, requested, waited, saved>>

args == <<start, end, metadata_file>>
inputs == <<metadata, start, end, metadata_file, reordered>>

NoAttempt == [kind |-> "none", status |-> 0, elapsed |-> 0, final |-> FALSE,
              wait |-> "none", dur |-> 0, payload |-> "none", lacks |-> FALSE]
NoPrev == [pc |-> "none", update |-> FALSE, failedIds |-> {}]

\* ---- pure functions of the program ----

\* Response.raise_for_status(): HTTPError for 4xx and 5xx
RaisesForStatus(status) == status >= 400 /\ status < 600

\* get_problem_detail: None on a transport error or an HTTPError
ReturnsNone(r) == r.exc \/ RaisesForStatus(r.status)

\* adaptive_delay with the slow-response test off by one
adaptive_delay_ge(status_code, elapsed, jitter) ==
    IF status_code = 429 THEN RATE_LIMIT_DELAY * TICKS + jitter
    ELSE IF elapsed >= 2 * TICKS THEN SLOW_RESPONSE_DELAY * TICKS + jitter
    ELSE NORMAL_DELAY * TICKS + jitter

\* adaptive_delay: the time slept, in ticks
adaptive_delay(status_code, elapsed, jitter) ==
    IF status_code = 429 THEN RATE_LIMIT_DELAY * TICKS + jitter
    ELSE IF elapsed > 2 * TICKS THEN SLOW_RESPONSE_DELAY * TICKS + jitter
    ELSE NORMAL_DELAY * TICKS + jitter

\* a parsed body without a data.question object
LacksQuestion(detail) ==
    \/ ~Has(detail, "data")
    \/ detail.m["data"].t # "obj"
    \/ ~Has(detail.m["data"], "question")
    \/ detail.m["data"].m["question"].t = "null"

\* the validation of lines 261-264: "invalid", "ok", or the AttributeError
\* of None.get("question")
Validate(detail) ==
    IF ~Has(detail, "data") THEN "invalid"
    ELSE LET d == Get(detail, "data", EmptyDict)
         IN  IF d.t # "obj" THEN "AttributeError"
             ELSE IF Get(d, "question", JNull).t = "null" THEN "invalid"
             ELSE "ok"

\* the index left in source order
SortPairsNone(s) == s

\* list.sort(key=question_id): a stable insertion sort
RECURSIVE Insert(_, _)
Insert(s, x) ==
    IF s = << >> THEN <<x>>
    ELSE IF Head(s).question_id <= x.question_id THEN <<Head(s)>> \o Insert(Tail(s), x)
    ELSE <<x>> \o s
RECURSIVE SortPairs(_)
SortPairs(s) ==
    IF s = << >> THEN << >>
    ELSE Insert(SortPairs(SubSeq(s, 1, Len(s) - 1)), s[Len(s)])

\* the range test without its lower bound
InRangeNoStart(id, lo, hi) == hi = None \/ id <= hi

\* the range test of lines 197-198
InRange(id, lo, hi) == (lo = None \/ id >= lo) /\ (hi = None \/ id <= hi)

RECURSIVE FilterRange(_, _, _)
FilterRange(s, lo, hi) ==
    IF s = << >> THEN << >>
    ELSE (IF InRange(Head(s).question_id, lo, hi) THEN <<Head(s)>> ELSE << >>)
           \o FilterRange(Tail(s), lo, hi)

\* lines 192-199: the filter runs only when a bound is given
SelectPairs(s, lo, hi) ==
    IF lo # None \/ hi # None THEN FilterRange(s, lo, hi) ELSE s

\* the update flag read the wrong way round
SkipExistingInv(file, upd) == file.exists /\ upd

\* line 218
SkipExisting(file, upd) == file.exists /\ ~upd

\* one sleep too many
MoreRetriesOff(count) == count <= MAX_RETRIES

\* the guard of every sleep between attempts (lines 240, 250, 269, 275, 290)
MoreRetries(count) == count < MAX_RETRIES

\* the counter assigned instead of incremented
CountSet(st, key) == [st EXCEPT ![key] = 1]

\* stats[key] += 1 (lines 223, 283, 297)
Count(st, key) == [st EXCEPT ![key] = @ + 1]

CurStat == stat_status_pairs[idx]
CurId == CurStat.question_id
CurFile == Outfile(CurStat.question_id, CurStat.question__title_slug)

\* one attempt too many
LoopContinuesOff(count) == count <= MAX_RETRIES

\* line 235
LoopContinues(count) == count < MAX_RETRIES

\* ---- initial states ----

\* every metadata index with unique ids out of Ids, in any order
RECURSIVE Indexes(_)
Indexes(n) ==
    IF n = 0 THEN {<< >>}
    ELSE LET shorter == Indexes(n - 1)
         IN  shorter \cup {Append(s, Stat(i)) : s \in {t \in shorter : Len(t) = n - 1},
                                               i \in Ids}
UniqueIds(s) == \A i, j \in 1 .. Len(s) : s[i].question_id = s[j].question_id => i = j
MetadataIndexes == {s \in Indexes(MaxId) : UniqueIds(s)}

Fresh ==
    /\ pc = "start"
    /\ stat_status_pairs = << >>
    /\ idx = 1
    /\ stats = [total |-> 0, success |-> 0, skipped |-> 0, failed |-> 0]
    /\ retry_count = 0
    /\ success = FALSE
    /\ exit_code = None
    /\ netMeta = FALSE
    /\ netDetail = FALSE
    /\ requested = {}
    /\ waited = FALSE
    /\ reqs = 0
    /\ only500 = FALSE
    /\ onlyWrite = FALSE
    /\ wrote = FALSE
    /\ last = NoAttempt
    /\ processed = << >>
    /\ failedIds = {}
    /\ saved = {}

\* one run, the metadata fetched from the API
Init ==
    /\ metadata \in MetadataIndexes
    /\ reordered = FALSE
    /\ start \in {None} \cup Ids
    /\ end \in {None} \cup Ids
    /\ metadata_file = FALSE
    /\ update \in BOOLEAN
    /\ disk \in [Paths -> {Absent, OldFile}]
    /\ diskAtStart = disk
    /\ run = 1
    /\ prev = NoPrev
    /\ Fresh

\* ---- lines 169-187: the metadata cannot be loaded or fetched ----
MetadataFailure ==
    /\ pc = "start"
    /\ pc' = "exit"
    /\ exit_code' = 1
    /\ netMeta' = ~metadata_file
    /\ UNCHANGED <<inputs, update, stat_status_pairs, idx, stats, retry_count, success,
                   disk, run, netDetail, requested, waited, reqs, only500, wrote,
                   onlyWrite, last, processed, failedIds, saved, prev, diskAtStart>>

\* ---- lines 169-202: metadata obtained, sorted, filtered, counted ----
SelectWork ==
    /\ pc = "start"
    /\ netMeta' = ~metadata_file
    /\ IF metadata = << >>
       THEN /\ pc' = "exit"
            /\ exit_code' = 1
            /\ UNCHANGED <<metadata, reordered, stat_status_pairs, stats>>
       ELSE /\ metadata' = SortPairs(metadata)
            /\ reordered' = (metadata' # metadata)
            /\ stat_status_pairs' = SelectPairs(metadata', start, end)
            /\ stats' = [total |-> Len(stat_status_pairs'), success |-> 0,
                         skipped |-> 0, failed |-> 0]
            /\ pc' = "loop"
            /\ UNCHANGED exit_code
    /\ UNCHANGED <<args, update, idx, retry_count, success, disk, run, netDetail,
                   requested, waited, reqs, only500, wrote, onlyWrite, last, processed,
                   failedIds, saved, prev, diskAtStart>>

\* ---- lines 216-225: the output file exists and -u is not given ----
SkipItem ==
    /\ pc = "loop"
    /\ idx <= Len(stat_status_pairs)
    /\ SkipExisting(disk[CurFile], update)
    /\ stats' = Count(stats, "skipped")
    /\ idx' = idx + 1
    /\ processed' = Append(processed, CurId)
    /\ last' = NoAttempt
    /\ UNCHANGED <<inputs, update, pc, stat_status_pairs, retry_count, success, disk,
                   exit_code, run, netMeta, netDetail, requested, waited, reqs, only500,
                   wrote, onlyWrite, failedIds, saved, prev, diskAtStart>>

\* ---- lines 227-233: the item is to be fetched ----
BeginFetch ==
    /\ pc = "loop"
    /\ idx <= Len(stat_status_pairs)
    /\ ~SkipExisting(disk[CurFile], update)
    /\ retry_count' = 0
    /\ success' = FALSE
    /\ pc' = "retry"
    /\ reqs' = 0
    /\ only500' = TRUE
    /\ onlyWrite' = TRUE
    /\ wrote' = FALSE
    /\ last' = NoAttempt
    /\ processed' = Append(processed, CurId)
    /\ UNCHANGED <<inputs, update, stat_status_pairs, idx, stats, disk, exit_code, run,
                   netMeta, netDetail, requested, waited, failedIds, saved, prev,
                   diskAtStart>>

\* ---- lines 301-318: the loop is over ----
Finish ==
    /\ pc = "loop"
    /\ idx > Len(stat_status_pairs)
    /\ pc' = "done"
    /\ exit_code' = 0
    /\ last' = NoAttempt
    /\ UNCHANGED <<inputs, update, stat_status_pairs, idx, stats, retry_count, success,
                   disk, run, netMeta, netDetail, requested, waited, reqs, only500,
                   wrote, onlyWrite, processed, failedIds, saved, prev, diskAtStart>>

\* one detail request is issued (line 236)
Request(status) ==
    /\ pc = "retry"
    /\ LoopContinues(retry_count)
    /\ reqs' = reqs + 1
    /\ netDetail' = TRUE
    /\ requested' = requested \cup {CurId}
    /\ UNCHANGED netMeta
    /\ only500' = (only500 /\ status = 500)

\* a failed attempt: count it, sleep when attempts remain, leave the loop and
\* count the item as failed when none remain (lines 293-299)
FailAttempt(kind, status, elapsed, waitKind, dur, lacks) ==
    LET n == retry_count + 1
        more == MoreRetries(n)
    IN  /\ retry_count' = n
        /\ last' = [kind |-> kind, status |-> status, elapsed |-> elapsed,
                    final |-> ~LoopContinues(n),
                    wait |-> IF more THEN waitKind ELSE "none",
                    dur |-> IF more THEN dur ELSE 0, payload |-> "none",
                    lacks |-> lacks]
        /\ waited' = (last'.dur >= TICKS)
        /\ onlyWrite' = (onlyWrite /\ kind = "write")
        /\ IF LoopContinues(n)
           THEN UNCHANGED <<pc, stats, idx, failedIds>>
           ELSE /\ stats' = Count(stats, "failed")
                /\ failedIds' = failedIds \cup {CurId}
                /\ idx' = idx + 1
                /\ pc' = "loop"
        /\ UNCHANGED <<inputs, update, stat_status_pairs, success, exit_code, run,
                       processed, saved, prev, diskAtStart>>

\* ---- lines 238-245: get_problem_detail returned None ----
AttemptNoResponse ==
    \E r \in {[exc |-> TRUE, status |-> 0]} \cup {[exc |-> FALSE, status |-> s] : s \in Statuses} :
        /\ ReturnsNone(r)
        /\ Request(r.status)
        /\ FailAttempt(IF r.exc THEN "transport" ELSE "http_error", r.status, 0,
                       "fixed", DEFAULT_RETRY_DELAY * TICKS, FALSE)
        /\ UNCHANGED <<disk, wrote>>

\* ---- lines 247-255: a response whose status is not 200 ----
AttemptBadStatus ==
    \E s \in Statuses, e \in Elapsed, j \in Jitter :
        /\ ~ReturnsNone([exc |-> FALSE, status |-> s])
        /\ s # 200
        /\ Request(s)
        /\ FailAttempt("status", s, e, "adaptive", adaptive_delay(s, e, j), FALSE)
        /\ UNCHANGED <<disk, wrote>>

\* ---- lines 272-277: resp.json() raises JSONDecodeError ----
AttemptJsonError ==
    /\ ~ReturnsNone([exc |-> FALSE, status |-> 200])
    /\ Request(200)
    /\ FailAttempt("json", 200, 0, "fixed", DEFAULT_RETRY_DELAY * TICKS, FALSE)
    /\ UNCHANGED <<disk, wrote>>

\* ---- lines 259-271: the payload has no data.question ----
AttemptInvalid ==
    \E body \in Bodies \ {NotJson} :
        /\ ~ReturnsNone([exc |-> FALSE, status |-> 200])
        /\ Validate(body) = "invalid"
        /\ Request(200)
        /\ FailAttempt("invalid", 200, 0, "fixed", DEFAULT_RETRY_DELAY * TICKS,
                       LacksQuestion(body))
        /\ UNCHANGED <<disk, wrote>>

\* ---- line 263: detail["data"] is null, None.get raises AttributeError, which
\* ---- no except clause of main catches: the process ends with a traceback
AttemptCrash ==
    \E body \in Bodies \ {NotJson} :
        /\ ~ReturnsNone([exc |-> FALSE, status |-> 200])
        /\ Validate(body) = "AttributeError"
        /\ Request(200)
        /\ pc' = "crashed"
        /\ exit_code' = 1
        /\ last' = [NoAttempt EXCEPT !.kind = "crash", !.status = 200, !.final = TRUE,
                                       !.lacks = LacksQuestion(body)]
        /\ waited' = FALSE
        /\ onlyWrite' = FALSE
        /\ UNCHANGED <<inputs, update, stat_status_pairs, idx, stats, retry_count,
                       success, disk, run, wrote, processed, failedIds, saved, prev,
                       diskAtStart>>

\* ---- lines 279-284: the file is written and the success counted; the
\* ---- wait of line 285 is about to start
AttemptWrite ==
    \E p \in Payloads, e \in Elapsed, j \in Jitter :
        /\ ~ReturnsNone([exc |-> FALSE, status |-> 200])
        /\ Validate(DetailValid(p)) = "ok"
        /\ Request(200)
        /\ disk' = [disk EXCEPT ![CurFile] = File(Dump(DetailValid(p)))]
        /\ wrote' = TRUE
        /\ stats' = Count(stats, "success")
        /\ success' = TRUE
        /\ last' = [kind |-> "success", status |-> 200, elapsed |-> e, final |-> TRUE,
                    wait |-> "adaptive", dur |-> adaptive_delay(200, e, j),
                    payload |-> p, lacks |-> FALSE]
        /\ waited' = FALSE
        /\ onlyWrite' = FALSE
        /\ pc' = "sleep"
        /\ saved' = saved \cup {<<CurId, p>>}
        /\ UNCHANGED <<inputs, update, stat_status_pairs, idx, retry_count, exit_code,
                       run, processed, failedIds, prev, diskAtStart>>

\* ---- lines 285-286, 299: adaptive_delay(resp) returns, break, next item ----
SuccessDelay ==
    /\ pc = "sleep"
    /\ waited' = (last.dur >= TICKS)
    /\ idx' = idx + 1
    /\ pc' = "loop"
    /\ UNCHANGED <<inputs, update, stat_status_pairs, stats, retry_count, success, disk,
                   exit_code, run, netMeta, netDetail, requested, reqs, only500, wrote,
                   onlyWrite, last, processed, failedIds, saved, prev, diskAtStart>>

\* what a write that raises IOError leaves at the path: open() failed and the
\* path is as it was, or open() truncated the file and json.dump stopped after
\* its first chunk
FailedWrites(old, text) == {old, File(SubSeq(text, 1, 1))}

\* ---- lines 280-291: open or json.dump raises IOError ----
AttemptWriteError ==
    \E p \in Payloads :
        /\ ~ReturnsNone([exc |-> FALSE, status |-> 200])
        /\ Validate(DetailValid(p)) = "ok"
        /\ Request(200)
        /\ disk' \in {[disk EXCEPT ![CurFile] = f] :
                        f \in FailedWrites(disk[CurFile], Dump(DetailValid(p)))}
        /\ wrote' = TRUE
        /\ FailAttempt("write", 200, 0, "fixed", DEFAULT_RETRY_DELAY * TICKS, FALSE)

\* ---- the program is started a second time with the same arguments, without
\* ---- -u, on the output directory the first run left; the metadata source
\* ---- delivers the same entries
Rerun ==
    /\ pc \in {"done", "exit", "crashed"}
    /\ run = 1
    /\ run' = run + 1
    /\ prev' = [pc |-> pc, update |-> update, failedIds |-> failedIds]
    /\ update' = FALSE
    /\ diskAtStart' = disk
    /\ pc' = "start"
    /\ stat_status_pairs' = << >>
    /\ idx' = 1
    /\ stats' = [total |-> 0, success |-> 0, skipped |-> 0, failed |-> 0]
    /\ retry_count' = 0
    /\ success' = FALSE
    /\ exit_code' = None
    /\ netMeta' = FALSE
    /\ netDetail' = FALSE
    /\ requested' = {}
    /\ waited' = FALSE
    /\ reqs' = 0
    /\ only500' = FALSE
    /\ onlyWrite' = FALSE
    /\ wrote' = FALSE
    /\ last' = NoAttempt
    /\ processed' = << >>
    /\ failedIds' = {}
    /\ saved' = {}
    /\ UNCHANGED <<inputs, disk>>

Run ==
    \/ MetadataFailure
    \/ SelectWork
    \/ SkipItem
    \/ BeginFetch
    \/ Finish
    \/ AttemptNoResponse
    \/ AttemptBadStatus
    \/ AttemptJsonError
    \/ AttemptInvalid
    \/ AttemptCrash
    \/ AttemptWrite
    \/ SuccessDelay
    \/ AttemptWriteError

Next == Run

Spec == Init /\ [][Next]_vars

\* the program run twice in a row without -u and without a range
NextRerun == Run \/ Rerun

InitRerun ==
    /\ metadata \in MetadataIndexes
    /\ reordered = FALSE
    /\ start = None
    /\ end = None
    /\ metadata_file \in BOOLEAN
    /\ update = FALSE
    /\ disk \in [Paths -> {Absent, OldFile}]
    /\ diskAtStart = disk
    /\ run = 1
    /\ prev = NoPrev
    /\ Fresh

SpecRerun == InitRerun /\ [][NextRerun]_vars

\* ---- adaptive_delay on its own: any response, then the sleep ----
InitDelay ==
    /\ metadata = << >>
    /\ reordered = FALSE
    /\ start = None
    /\ end = None
    /\ metadata_file = FALSE
    /\ update = FALSE
    /\ disk = [q \in Paths |-> Absent]
    /\ diskAtStart = disk
    /\ run = 1
    /\ prev = NoPrev
    /\ stat_status_pairs = << >>
    /\ idx = 1
    /\ stats = [total |-> 0, success |-> 0, skipped |-> 0, failed |-> 0]
    /\ retry_count = 0
    /\ success = FALSE
    /\ exit_code = None
    /\ netMeta = FALSE
    /\ netDetail = FALSE
    /\ requested = {}
    /\ waited = FALSE
    /\ reqs = 0
    /\ only500 = FALSE
    /\ onlyWrite = FALSE
    /\ wrote = FALSE
    /\ processed = << >>
    /\ failedIds = {}
    /\ saved = {}
    /\ pc = "delay"
    /\ \E s \in StatusesAll, e \in ElapsedAll :
          last = [NoAttempt EXCEPT !.kind = "response", !.status = s, !.elapsed = e]

DelayPolicy ==
    /\ pc = "delay"
    /\ \E j \in Jitter :
          last' = [last EXCEPT !.wait = "adaptive",
                               !.dur = adaptive_delay(last.status, last.elapsed, j)]
    /\ pc' = "slept"
    /\ UNCHANGED <<inputs, update, stat_status_pairs, idx, stats, retry_count, success,
                   disk, exit_code, run, netMeta, netDetail, requested, waited, reqs,
                   only500, wrote, onlyWrite, processed, failedIds, saved, prev,
                   diskAtStart>>

NextDelay == DelayPolicy

SpecDelay == InitDelay /\ [][NextDelay]_vars

\* ======================= the claims =======================

FailedKinds == {"transport", "http_error", "status", "json", "invalid", "write"}
\* the waits adaptive_delay can produce, by the branch taken
WaitFrom(unit) == (unit * TICKS) .. ((unit + 1) * TICKS - 1)
PathOf(id) == Outfile(id, SlugOf(id))
\* the loop has just skipped stat_status_pairs[idx - 1]
JustSkipped == pc = "loop" /\ idx > 1 /\ last.kind = "none"

\* C1: while every detail attempt for an item returns HTTP 500, no attempt
\* touches the output file or the success and skipped counters; the first and
\* second such attempt leave the item in the retry loop with failed unchanged,
\* and the third (MAX_RETRIES) ends the item with failed + 1 and hands the loop
\* to the next item with the process still running.
C1_RetryExhaustion ==
    [][(pc = "retry" /\ reqs' = reqs + 1 /\ only500') =>
         /\ reqs' <= 3
         /\ disk' = disk
         /\ ~wrote'
         /\ stats'.success = stats.success
         /\ stats'.skipped = stats.skipped
         /\ IF reqs' = 3
            THEN /\ stats'.failed = stats.failed + 1
                 /\ pc' = "loop"
                 /\ idx' = idx + 1
                 /\ exit_code' = None
            ELSE /\ stats'.failed = stats.failed
                 /\ pc' = "retry"
                 /\ idx' = idx]_vars

\* an item was given up after three HTTP 500 answers and another item follows
C1_Witness ==
    /\ pc = "loop"
    /\ only500
    /\ reqs = 3
    /\ last.kind = "http_error"
    /\ last.status = 500
    /\ stats.failed = 1
    /\ idx <= Len(stat_status_pairs)

\* C2: when the retry loop of an item is over, at most MAX_RETRIES detail
\* requests were issued for it, and exactly MAX_RETRIES were issued if and only
\* if neither the first nor the second attempt succeeded.
C2_BoundedRetry ==
    (reqs > 0 /\ pc # "retry") =>
        /\ reqs <= 3
        /\ (reqs = 3 <=> ~(success /\ reqs < 3))

\* C3: reaching an item whose output file exists, without -u, adds one to
\* skipped and nothing to success or failed, issues no detail request, leaves
\* every file as it is and moves to the next item.
C3_SkipIfExists ==
    [][(pc = "loop" /\ idx <= Len(stat_status_pairs) /\ disk[CurFile].exists /\ ~update) =>
         /\ stats' = [stats EXCEPT !.skipped = @ + 1]
         /\ disk' = disk
         /\ netDetail' = netDetail
         /\ reqs' = reqs
         /\ idx' = idx + 1
         /\ pc' = "loop"]_vars

\* an item with an existing file was skipped
C3_Witness ==
    /\ JustSkipped
    /\ ~update
    /\ stats.skipped >= 1
    /\ disk[PathOf(stat_status_pairs[idx - 1].question_id)].exists
    /\ ~netDetail

\* C4 as stated: a second run with the same inputs and without -u, after a
\* first run without -u that completed, issues no network call, skips every
\* selected item and leaves the files as the first run left them.
C4_Idempotence ==
    (run = 2 /\ pc = "done" /\ prev.pc = "done" /\ ~prev.update /\ ~update) =>
        /\ ~netMeta
        /\ ~netDetail
        /\ stats.skipped = stats.total
        /\ disk = diskAtStart

\* C4 amended: when the first run completed with failed = 0, the second run
\* issues no detail request, issues the metadata request exactly when no
\* metadata file is given, skips every selected item and leaves the files as
\* the first run left them.
C4_IdempotenceAfterCleanRun ==
    (run = 2 /\ pc = "done" /\ prev.pc = "done" /\ ~prev.update /\ ~update
       /\ prev.failedIds = {}) =>
        /\ ~netDetail
        /\ (netMeta <=> ~metadata_file)
        /\ stats.skipped = stats.total
        /\ disk = diskAtStart

\* a second run over two items after a first run that fetched one of them
C4_Witness ==
    /\ run = 2
    /\ pc = "done"
    /\ prev.pc = "done"
    /\ ~prev.update
    /\ ~update
    /\ prev.failedIds = {}
    /\ stats.total = 2
    /\ \E q \in Paths : diskAtStart[q] = File(Dump(DetailValid("p1")))

\* C5: at the end of a run no item counted in failed has a file at its output
\* path, and a following run without -u skips no item the previous run counted
\* in failed.
C5_FailedItemsRetried ==
    /\ pc = "done" => \A i \in failedIds : ~disk[PathOf(i)].exists
    /\ (run = 2 /\ JustSkipped) =>
           stat_status_pairs[idx - 1].question_id \notin prev.failedIds

\* C6: an HTTP-200 response whose parsed body lacks a data.question object is
\* classified as an invalid payload and the process keeps running the loop.
C6_InvalidPayloadContained ==
    last.lacks => (last.kind = "invalid" /\ pc \in {"retry", "loop", "done"})

\* C7: after a non-final attempt that ended with an HTTP status other than 200
\* the wait is the one adaptive_delay computes from that response, not the
\* fixed retry delay.
C7_StatusFailureAdaptive ==
    (last.kind \in {"status", "http_error"} /\ ~last.final) =>
        /\ last.wait = "adaptive"
        /\ IF last.status = 429 THEN last.dur \in WaitFrom(60)
           ELSE last.dur \in WaitFrom(5) \cup WaitFrom(1)

\* C8 as stated: every attempt that obtained an HTTP-200 response with
\* data.question is followed by the adaptive wait, no failed attempt is, and a
\* non-final failed attempt is followed by the fixed retry delay.
C8_DelayOnlyAfterSuccess ==
    /\ last.kind \in {"success", "write"} => last.wait = "adaptive"
    /\ last.kind \in {"transport", "http_error", "status", "json", "invalid"} =>
           /\ last.wait # "adaptive"
           /\ ~last.final => last.wait = "fixed"

\* C8 amended: the adaptive wait follows every attempt whose response was
\* written to the output file and every non-final attempt whose response has a
\* status other than 200 below 400, and no other attempt; every other
\* non-final failed attempt is followed by the fixed retry delay of 60 units,
\* and a final failed attempt by no wait.
C8_DelayAfterWriteOrStatus ==
    /\ last.kind = "success" =>
           /\ last.wait = "adaptive"
           /\ last.dur \in (IF last.elapsed > 2 * TICKS THEN WaitFrom(5) ELSE WaitFrom(1))
    /\ (last.kind = "status" /\ ~last.final) =>
           /\ last.wait = "adaptive"
           /\ last.status # 200
           /\ last.status < 400
    /\ (last.kind \in FailedKinds \ {"status"} /\ ~last.final) =>
           /\ last.wait = "fixed"
           /\ last.dur = 60 * TICKS
    /\ (last.kind \in FailedKinds /\ last.final) => last.wait = "none"
    /\ last.wait = "adaptive" => last.kind \in {"success", "status"}

\* a write failure earlier, then a non-200 response followed by the adaptive wait
C8_Witness ==
    /\ pc = "retry"
    /\ wrote
    /\ last.kind = "status"
    /\ last.wait = "adaptive"

\* C9: the wait is in [60, 61) for status 429 whatever the latency, otherwise
\* in [5, 6) for a latency above 2, otherwise in [1, 2).
C9_DelayPolicy ==
    pc = "slept" =>
        IF last.status = 429 THEN last.dur \in WaitFrom(60)
        ELSE IF last.elapsed > 2 * TICKS THEN last.dur \in WaitFrom(5)
        ELSE last.dur \in WaitFrom(1)

\* a latency of exactly 2 gave the short wait
C9_Witness ==
    /\ pc = "slept"
    /\ last.status # 429
    /\ last.elapsed = 2 * TICKS
    /\ last.dur \in WaitFrom(1)

\* C10: the selection is made of exactly the index entries whose id is within
\* the given bounds, in strictly ascending id order, whatever the order of the
\* index, and the loop reaches them in that order, each once, all of them by
\* the end of the run.
C10_SelectionOrder ==
    /\ [][(pc = "start" /\ pc' = "loop") =>
            LET sel == stat_status_pairs'
                entries == {metadata[i] : i \in 1 .. Len(metadata)}
                wanted == {e \in entries : /\ (start = None \/ e.question_id >= start)
                                          /\ (end = None \/ e.question_id <= end)}
            IN  /\ {sel[i] : i \in 1 .. Len(sel)} = wanted
                /\ \A i, j \in 1 .. Len(sel) :
                       i < j => sel[i].question_id < sel[j].question_id]_vars
    /\ [](pc \in {"loop", "retry", "done", "crashed"} =>
            /\ Len(processed) = (IF pc = "loop" \/ pc = "done" THEN idx - 1 ELSE idx)
            /\ Len(processed) <= Len(stat_status_pairs)
            /\ \A i \in 1 .. Len(processed) :
                   processed[i] = stat_status_pairs[i].question_id
            /\ pc = "done" => Len(processed) = Len(stat_status_pairs))

\* an index delivered out of order was cut by --start and processed to the end
C10_Witness ==
    /\ pc = "done"
    /\ reordered
    /\ Len(metadata) = 2
    /\ start = 2
    /\ processed = <<2>>

\* C11: an attempt that ends in a failed write uses up one of the item's
\* MAX_RETRIES attempts and adds nothing to success or skipped; with attempts
\* left it is followed by the fixed wait of 60 units and the item stays in the
\* retry loop; as the last attempt it adds one to failed and hands the loop to
\* the next item with the process still running. An item whose attempts all
\* ended in a failed write has made MAX_RETRIES of them when it is given up.
C11_WriteFailureBudgeted ==
    /\ [][(pc = "retry" /\ reqs' = reqs + 1 /\ last'.kind = "write") =>
            /\ retry_count' = retry_count + 1
            /\ retry_count' <= MAX_RETRIES
            /\ stats'.success = stats.success
            /\ stats'.skipped = stats.skipped
            /\ ~success'
            /\ IF retry_count' < MAX_RETRIES
               THEN /\ last'.wait = "fixed"
                    /\ last'.dur = 60 * TICKS
                    /\ stats'.failed = stats.failed
                    /\ pc' = "retry"
                    /\ idx' = idx
               ELSE /\ stats'.failed = stats.failed + 1
                    /\ pc' = "loop"
                    /\ idx' = idx + 1
                    /\ exit_code' = None]_vars
    /\ []((pc = "loop" /\ last.kind = "write" /\ onlyWrite) =>
            /\ reqs = MAX_RETRIES
            /\ stat_status_pairs[idx - 1].question_id \in failedIds
            /\ stats.success + stats.skipped + stats.failed = idx - 1)

\* an item was given up after three failed writes and another item follows
C11_Witness ==
    /\ pc = "loop"
    /\ onlyWrite
    /\ reqs = 3
    /\ last.kind = "write"
    /\ stats.failed = 1
    /\ exit_code = None
    /\ idx <= Len(stat_status_pairs)

\* C12: a run that ends because the metadata could not be obtained or parsed or
\* holds no entry ends with a nonzero exit code, having issued no detail request
\* and written no file; every other run that ends does so with exit code 0,
\* whatever the number of failed items.
C12_ExitStatus ==
    /\ pc = "exit" =>
           /\ exit_code \notin {None, 0}
           /\ ~netDetail
           /\ requested = {}
           /\ disk = diskAtStart
    /\ (exit_code # None /\ pc # "exit") => exit_code = 0

\* the selected items whose processing is over
ItemsDone == IF pc \in {"retry", "crashed"} THEN Len(processed) - 1 ELSE Len(processed)
Counted(st) == st.success + st.skipped + st.failed

\* C13: no step of a run lowers success, skipped or failed or changes total; a
\* step raises at most one of the three, by one, and does so exactly when the
\* processing of an item ends, so that the three add up to the number of items
\* processed so far; when the run completes they add up to total, the number
\* of selected items.
C13_StatsAccounting ==
    /\ [][(pc \in {"loop", "retry", "sleep"}) =>
            /\ stats'.success \in {stats.success, stats.success + 1}
            /\ stats'.skipped \in {stats.skipped, stats.skipped + 1}
            /\ stats'.failed \in {stats.failed, stats.failed + 1}
            /\ stats'.total = stats.total
            /\ Counted(stats') \in {Counted(stats), Counted(stats) + 1}]_vars
    /\ [](pc \in {"loop", "retry", "sleep", "done", "crashed"} =>
            /\ Counted(stats) = ItemsDone
            /\ stats.total = Len(stat_status_pairs)
            /\ Counted(stats) <= stats.total
            /\ pc = "done" => Counted(stats) = stats.total)

\* a completed run over two or more items that gave exactly one of them up
C13_Witness ==
    /\ pc = "done"
    /\ stats.total >= 2
    /\ stats.failed = 1
    /\ stats.success + stats.skipped = stats.total - 1

SelectedIds == {stat_status_pairs[i].question_id : i \in 1 .. Len(stat_status_pairs)}

\* C14: with -u no item is ever counted in skipped, every item whose
\* processing is over was sent at least one detail request, and at the end of
\* the run the items that were sent a detail request are all the selected
\* items, those whose output file existed at the start included.
C14_UpdateFetchesAll ==
    update =>
        /\ stats.skipped = 0
        /\ \A i \in 1 .. ItemsDone : processed[i] \in requested
        /\ pc = "done" => requested = SelectedIds

\* a completed run with -u over an item with a file and an item without one
C14_Witness ==
    /\ update
    /\ pc = "done"
    /\ \E i, j \in SelectedIds :
          /\ diskAtStart[PathOf(i)].exists
          /\ ~diskAtStart[PathOf(j)].exists
          /\ {i, j} \subseteq requested

\* json.load, the reader the file is re-read with: the value of a token text,
\* or JSONDecodeError for a text that is no complete document
JSONDecodeError == [ok |-> FALSE]
RECURSIVE ParseValue(_)
RECURSIVE ParseMembers(_, _)
ParseMembers(toks, m) ==
    IF toks = << >> THEN JSONDecodeError
    ELSE IF Head(toks) = "}" THEN [ok |-> TRUE, v |-> JObj(m), rest |-> Tail(toks)]
    ELSE IF Head(toks) = "," THEN ParseMembers(Tail(toks), m)
    ELSE IF Len(toks) >= 3 /\ toks[2] = ":"
         THEN LET r == ParseValue(SubSeq(toks, 3, Len(toks)))
              IN  IF r.ok THEN ParseMembers(r.rest, (Head(toks) :> r.v) @@ m)
                  ELSE JSONDecodeError
    ELSE JSONDecodeError
ParseValue(toks) ==
    IF toks = << >> THEN JSONDecodeError
    ELSE IF Head(toks) = "null" THEN [ok |-> TRUE, v |-> JNull, rest |-> Tail(toks)]
    ELSE IF Head(toks) = "'"
         THEN IF Len(toks) >= 3 /\ toks[3] = "'"
              THEN [ok |-> TRUE, v |-> JStr(toks[2]), rest |-> SubSeq(toks, 4, Len(toks))]
              ELSE JSONDecodeError
    ELSE IF Head(toks) = "{" THEN ParseMembers(Tail(toks), [k \in {} |-> JNull])
    ELSE JSONDecodeError
Load(text) ==
    LET r == ParseValue(text)
    IN  IF r.ok /\ r.rest = << >> THEN r.v ELSE JSONDecodeError

\* C15: the file of every item counted in success exists and re-reads as the
\* parsed body of the response whose attempt was counted, at the moment of the
\* count and at every later moment of the run; no item is counted in success
\* twice, and success counts exactly those items.
C15_RoundTrip ==
    /\ \A s \in saved :
          /\ disk[PathOf(s[1])].exists
          /\ Load(disk[PathOf(s[1])].text) = DetailValid(s[2])
    /\ \A s, u \in saved : s[1] = u[1] => s = u
    /\ Cardinality(saved) = stats.success

\* a completed run with -u replaced an older document by the body of the
\* response that was counted
C15_Witness ==
    /\ pc = "done"
    /\ \E s \in saved :
          /\ s[2] = "p2"
          /\ Load(diskAtStart[PathOf(s[1])].text) = DetailValid("p0")
          /\ Load(disk[PathOf(s[1])].text) = DetailValid("p2")

\* C16: when the wait after a successful attempt starts, the output file of
\* the item holds the complete document of that response and the item is
\* counted in success; only an attempt that wrote its file raises success; the
\* wait is the one adaptive_delay gives for the status and latency of that
\* response; until it is over no request is issued, no file is touched and the
\* loop stays at the item, and the loop comes to the next item only by the end
\* of that wait.
C16_SuccessOrder ==
    /\ [](pc = "sleep" =>
            /\ last.kind = "success"
            /\ Load(disk[CurFile].text) = DetailValid(last.payload)
            /\ success
            /\ <<CurId, last.payload>> \in saved
            /\ stats.success = Cardinality(saved)
            /\ ~waited
            /\ last.wait = "adaptive"
            /\ last.dur \in (IF last.status = 429 THEN WaitFrom(60)
                             ELSE IF last.elapsed > 2 * TICKS THEN WaitFrom(5)
                             ELSE WaitFrom(1)))
    /\ [][(stats'.success # stats.success) =>
            /\ stats'.success = stats.success + 1
            /\ pc' = "sleep"
            /\ idx' = idx
            /\ disk'[CurFile] = File(Dump(DetailValid(last'.payload)))]_vars
    /\ [][(pc = "sleep") =>
            /\ pc' = "loop"
            /\ idx' = idx + 1
            /\ waited'
            /\ disk' = disk
            /\ stats' = stats
            /\ requested' = requested
            /\ reqs' = reqs]_vars
    /\ [][(pc' = "loop" /\ idx' = idx + 1 /\ last'.kind = "success") =>
            (pc = "sleep" /\ waited')]_vars

\* the short wait after a successful attempt is over and another item follows
C16_Witness ==
    /\ pc = "loop"
    /\ last.kind = "success"
    /\ last.elapsed = 2 * TICKS
    /\ last.dur \in WaitFrom(1)
    /\ waited
    /\ stats.success = 1
    /\ idx <= Len(stat_status_pairs)

\* the item the latest detail request was issued for
LastRequested ==
    LET at == {i \in 1 .. Len(processed) : processed[i] \in requested}
    IN  processed[CHOOSE i \in at : \A j \in at : j <= i]

\* C17 as stated: every detail request but the first of the run is issued
\* after a wait of at least one time unit that followed the request before it.
C17_AlwaysThrottled ==
    [][(reqs' = reqs + 1 /\ netDetail) => waited]_vars

\* C17 amended: a further attempt for the same item is issued after a wait of
\* at least one time unit that followed the attempt before it; the first
\* request of an item is issued after such a wait exactly when the item of the
\* previous detail request was not given up, and directly after the final
\* failed attempt of that item when it was.
C17_ThrottledUnlessGivenUp ==
    [][(reqs' = reqs + 1 /\ netDetail) =>
         IF reqs > 0 THEN waited
         ELSE (waited <=> LastRequested \notin failedIds)]_vars

\* the first request of an item was issued right after the item before it had
\* been given up
C17_Witness ==
    /\ pc = "retry"
    /\ reqs = 1
    /\ Len(processed) >= 2
    /\ processed[Len(processed) - 1] \in failedIds
    /\ requested = {processed[Len(processed) - 1], CurId}

\* the range test on ids: inside [start, end], an absent bound being open
Wanted(id) == (start = None \/ id >= start) /\ (end = None \/ id <= end)

\* C18: a step changes a file only when it is the write step of an attempt
\* (HTTP 200 with data.question) and only the file of the item that attempt is
\* for, a selected item; all along the run every file that differs from what
\* it was at the start belongs to a selected item that a detail request was
\* issued for, every item a detail request was issued for is a selected item
\* with its id in the range, and the file of an item whose id is outside the
\* range is as it was at the start.
C18_Frame ==
    /\ [][\A q \in Paths : disk'[q] # disk[q] =>
            /\ pc = "retry"
            /\ q = CurFile
            /\ CurId \in SelectedIds
            /\ wrote'
            /\ last'.kind \in {"success", "write"}
            /\ last'.status = 200]_vars
    /\ [](/\ \A i \in Ids : disk[PathOf(i)] # diskAtStart[PathOf(i)] =>
                                i \in SelectedIds \cap requested
          /\ \A i \in requested : i \in SelectedIds /\ Wanted(i)
          /\ \A i \in Ids : ~Wanted(i) => /\ i \notin requested
                                          /\ disk[PathOf(i)] = diskAtStart[PathOf(i)])

\* a completed run cut by --start fetched the item in the range and left the
\* item below it alone
C18_Witness ==
    /\ pc = "done"
    /\ start = 2
    /\ Len(metadata) = 2
    /\ requested = {2}
    /\ disk[PathOf(2)] # diskAtStart[PathOf(2)]
    /\ ~disk[PathOf(1)].exists

\* C19: at the end of a run with -u, the file of every item counted in failed
\* that had a file when the run started is as it was then.
C19_ExistingDataSurvives ==
    (update /\ pc = "done") =>
        \A i \in failedIds :
            diskAtStart[PathOf(i)].exists => disk[PathOf(i)] = diskAtStart[PathOf(i)]

====
